---- MODULE Spec2Model ----
(***************************************************************************)
(* Handle lifetime management of ts.Tensor (src/ts/tensor.go): the global  *)
(* registry ExistingTensors, the counters TensorCount and AllocatedMem,    *)
(* the mutex `lock`, newTensor / freeCTensor / Drop / CheckCMemLeak, and   *)
(* the finalizer goroutine of the Go runtime.                              *)
(*                                                                         *)
(* Names are sequences of tokens ("a", "_", the decimal digits), so that   *)
(* fmt.Sprintf("%s_%09d", ...) is computed digit by digit.                  *)
(* Native handles (lib.Ctensor) are positive integers; Nil is the nil      *)
(* pointer.                                                                *)
(***************************************************************************)
EXTENDS Integers, Sequences, FiniteSets, TLC

\* ---------------------------------------------------------------- bounds
\* number of user goroutines
NumThreads == 2
\* newTensor calls after the package-level `None = NewTensor()`
MaxAcquire == 2
\* errors the native error query (TorchErr) may report in one behaviour
MaxNativeErr == 1
\* estimated byte size of a defined tensor handed to New / FromCtensor
TensorBytes == 4
\* longest destination slice, and most elements to copy or to construct from
MaxLen == 3
\* NoGradGuard objects created in one behaviour
MaxGuards == 3
\* NoGrad / NoGrad1 calls nested in one another
MaxDepth == 3

\* ---------------------------------------------------------------- state
VARIABLES
    TensorCount,      \* var TensorCount int64
    AllocatedMem,     \* var AllocatedMem int64
    ExistingTensors,  \* var ExistingTensors map[string]struct{}  (its key set)
    lock,             \* var lock sync.Mutex: 0 = unlocked, else the holder
    Debug,            \* gotch.Debug
    tensors,          \* the *Tensor objects returned so far (index 1 is None)
    nbytesOf,         \* native side: estimated byte size behind each handle
    nativeErrs,       \* errors TorchErr has reported so far
    pc,               \* position of each goroutine
    local,            \* local variables of each goroutine's current call
    hist,             \* per wrapper: calls of lib.AtFree made through it, whether
                      \* a release call (Drop or finalizer run) on it has returned,
                      \* and whether the last one to return returned an error
    nilFreed,         \* lib.AtFree has been called with a nil pointer
    lastCall,         \* the last data operation (copy, construction): the native
                      \* entry points it called, in order, and what it returned
    gradEnabled,      \* native side: the global gradient mode
    guards,           \* the *NoGradGuard objects created so far
    frames            \* the NoGrad / NoGrad1 calls whose closure is running,
                      \* innermost last

\* the state of the tensor lifetime management
lifeVars == <<TensorCount, AllocatedMem, ExistingTensors, lock, Debug, tensors,
              nbytesOf, nativeErrs, pc, local, hist, nilFreed>>
\* the gradient mode and its guards
gradVars == <<gradEnabled, guards, frames>>

vars == <<TensorCount, AllocatedMem, ExistingTensors, lock, Debug, tensors,
          nbytesOf, nativeErrs, pc, local, hist, nilFreed, lastCall,
          gradEnabled, guards, frames>>

Nil == 0
\* the user goroutines
Threads == 1..NumThreads

\* ---------------------------------------------------------------- names
Digits == <<"0", "1", "2", "3", "4", "5", "6", "7", "8", "9">>

RECURSIVE Pow10(_)
Pow10(k) == IF k = 0 THEN 1 ELSE 10 * Pow10(k - 1)

\* fmt.Sprintf("%09d", n) for 0 <= n < 10^9
Pad9(n) == [i \in 1..9 |-> Digits[((n \div Pow10(9 - i)) % 10) + 1]]

\* fmt.Sprintf("%s_%09d", name, count)
WithCount(name, count) == name \o <<"_">> \o Pad9(count)

\* fmt.Sprintf("tensor_%09d", count)
AutoName(count) == WithCount(<<"tensor">>, count)

\* fmt.Sprintf("%s_cloned", name)
ClonedName(name) == name \o <<"_", "cloned">>

\* a variant that formats the count read before the increment of line 69
newNameStaleCount(nameOpt, count) ==
    IF Len(nameOpt) > 0 THEN nameOpt[1] ELSE AutoName(count - 1)

\* newName(nameOpt...): the caller's name if one was given, else the
\* auto-generated one (TensorCount is read after its increment)
newName(nameOpt, count) ==
    IF Len(nameOpt) > 0 THEN nameOpt[1] ELSE AutoName(count)

\* a variant of lines 76-79 that numbers with the count before the increment
RegisteredNameOffByOne(nameOpt, count, existing) ==
    LET name == newName(nameOpt, count)
    IN  IF name \in existing THEN WithCount(name, count - 1) ELSE name

\* lines 76-79: disambiguate a name that is already registered
RegisteredName(nameOpt, count, existing) ==
    LET name == newName(nameOpt, count)
    IN  IF name \in existing THEN WithCount(name, count) ELSE name

\* names a caller passes: one that is in use (the name None got), and that
\* name in its disambiguated form
BaseName == AutoName(1)
CallerNames == {BaseName, WithCount(BaseName, MaxAcquire + 1)}
\* the variadic nameOpt: no name, or one name
NameOpts == {<<>>} \cup {<<n>> : n \in CallerNames}

\* ---------------------------------------------------------------- helpers
Wrappers == 1..Len(tensors)
\* the package-level variable None (line 37) is the first wrapper
NoneTensor == 1

\* a goroutine that is in no call.  ts is the wrapper a release call works
\* on; second tells that an earlier release call on it had already returned
\* when this one started
IdleLocal == [op |-> "none", ts |-> 0, second |-> FALSE]

CanAcquire == TensorCount < 1 + MaxAcquire

\* the history of a wrapper no release call has returned on
NoHist == [free |-> 0, released |-> FALSE, err |-> FALSE]

\* no data operation has been called
NoCall == [op |-> "none", calls |-> <<>>, ret |-> "none"]

\* Tensor.nbytes() / the computation at lines 154-156: numel * dtype.Size()
\* of the native tensor behind a handle (0 for an undefined tensor)
Nbytes(sizes, c) == IF c = Nil THEN 0 ELSE sizes[c]

\* ---------------------------------------------------------------- Init
\* state after package initialisation: `var None = NewTensor()` has run
Init ==
    /\ TensorCount = 1
    /\ AllocatedMem = 0
    /\ ExistingTensors = {AutoName(1)}
    /\ lock = 0
    /\ Debug \in BOOLEAN
    /\ tensors = <<[name |-> AutoName(1), ctensor |-> 1,
                    finalizer |-> TRUE, reachable |-> TRUE]>>
    /\ nbytesOf = <<0>>
    /\ nativeErrs = 0
    /\ pc = [p \in Threads |-> "idle"]
    /\ local = [p \in Threads |-> IdleLocal]
    /\ hist = <<NoHist>>
    /\ nilFreed = FALSE
    /\ lastCall = NoCall
    /\ gradEnabled = TRUE
    /\ guards = <<>>
    /\ frames = <<>>

\* ---------------------------------------------------------------- acquire
\* newTensor(ctensor, nameOpt...), lines 59-90.  Everything it does to shared
\* state happens in the critical section 68-81, so the call is one step taken
\* when the lock is free; the wrapper is visible to others once it is returned
\* (the calledFrom field, used only in the log line 142, is not modelled).
newTensor(c, nameOpt) ==
    /\ lock = 0
    /\ TensorCount' = TensorCount + 1
    /\ AllocatedMem' = IF Debug THEN AllocatedMem + Nbytes(nbytesOf', c) ELSE AllocatedMem
    /\ LET name == RegisteredName(nameOpt, TensorCount', ExistingTensors)
       IN  /\ ExistingTensors' = ExistingTensors \cup {name}
           /\ tensors' = Append(tensors, [name |-> name, ctensor |-> c,
                                          finalizer |-> TRUE, reachable |-> TRUE])
    /\ hist' = Append(hist, NoHist)
    /\ UNCHANGED <<lock, Debug, pc, local, nilFreed>>

\* NewTensor(nameOpt...): lib.AtNewTensor() returns a fresh undefined tensor
NewTensor(t, nameOpt) ==
    /\ pc[t] = "idle"
    /\ CanAcquire
    /\ nbytesOf' = Append(nbytesOf, 0)
    /\ nativeErrs' = nativeErrs
    /\ newTensor(Len(nbytesOf) + 1, nameOpt)

\* pointers a caller can hand to New / FromCtensor: a tensor just created by
\* another native call (Nil stands for it here), or ts.Ctensor() of a wrapper
CallerPointers ==
    {Nil} \cup {tensors[w].ctensor : w \in {v \in Wrappers : /\ tensors[v].reachable
                                                             /\ tensors[v].ctensor # Nil}}

\* New(ctensor, nameOpt...)
New(t, c, nameOpt) ==
    /\ pc[t] = "idle"
    /\ CanAcquire
    /\ nativeErrs' = nativeErrs
    /\ IF c = Nil
         THEN /\ nbytesOf' = Append(nbytesOf, TensorBytes)
              /\ newTensor(Len(nbytesOf) + 1, nameOpt)
         ELSE /\ nbytesOf' = nbytesOf
              /\ newTensor(c, nameOpt)

\* FromCtensor(ctensor)
FromCtensor(t, c) == New(t, c, <<>>)

\* ts.ShallowClone(): lib.AtShallowClone, TorchErr, then newTensor(ctensor, name_cloned)
ShallowClone(t, w) ==
    /\ pc[t] = "idle"
    /\ CanAcquire
    /\ tensors[w].reachable
    /\ tensors[w].ctensor # Nil
    /\ \/ /\ nativeErrs < MaxNativeErr
          /\ nativeErrs' = nativeErrs + 1
          /\ UNCHANGED <<TensorCount, AllocatedMem, ExistingTensors, lock, Debug,
                         tensors, nbytesOf, pc, local, hist, nilFreed>>
       \/ /\ nativeErrs' = nativeErrs
          /\ nbytesOf' = Append(nbytesOf, Nbytes(nbytesOf, tensors[w].ctensor))
          /\ newTensor(Len(nbytesOf) + 1, <<ClonedName(tensors[w].name)>>)

\* ---------------------------------------------------------------- release
\* a release call returns
Return(p) ==
    /\ pc' = [pc EXCEPT ![p] = "idle"]
    /\ local' = [local EXCEPT ![p] = IdleLocal]

\* a variant of the returns in which the caller never sees the error
ReturnedNil(h, w, e) == [h EXCEPT ![w].released = TRUE, ![w].err = FALSE]

\* freeCTensor returns e (TRUE: the error of line 165, FALSE: nil) and Drop
\* hands it on, line 1198
Returned(h, w, e) == [h EXCEPT ![w].released = TRUE, ![w].err = e]

\* a variant of the entry without the nil test of lines 134-136
freeCTensorNoNilTest(p, op, w) ==
    /\ pc' = [pc EXCEPT ![p] = "free_lock"]
    /\ local' = [local EXCEPT ![p] = [op |-> op, ts |-> w,
                                      second |-> hist[w].released]]
    /\ hist' = hist

\* entry of freeCTensor, lines 134-138: return nil for a nil handle, else go
\* for the lock
freeCTensor(p, op, w) ==
    IF tensors[w].ctensor = Nil
      THEN /\ Return(p)
           /\ hist' = Returned(hist, w, FALSE)
      ELSE /\ pc' = [pc EXCEPT ![p] = "free_lock"]
           /\ local' = [local EXCEPT ![p] = [op |-> op, ts |-> w,
                                             second |-> hist[w].released]]
           /\ hist' = hist

\* ts.Drop(), lines 1193-1198.  Its nil test and the one at line 134 read the
\* same field with nothing but the calledFrom write between them.
Drop(t, w) ==
    /\ pc[t] = "idle"
    /\ tensors[w].reachable
    /\ tensors' = tensors
    /\ freeCTensor(t, "Drop", w)
    /\ UNCHANGED <<TensorCount, AllocatedMem, ExistingTensors, lock, Debug,
                   nbytesOf, nativeErrs, nilFreed>>

\* the double-free test at line 141
IsRegistered(name, existing) == name \in existing

\* a variant that accounts whether or not gotch.Debug is set
MemAfterFreeAlways(ts) == AllocatedMem - Nbytes(nbytesOf, ts.ctensor)

\* lines 147-160: the byte counter after the release of a wrapper
MemAfterFree(ts) ==
    IF Debug THEN AllocatedMem - Nbytes(nbytesOf, ts.ctensor) ELSE AllocatedMem

\* line 162, lib.AtFree(ts.ctensor), as recorded in hist
HistAfterFree(w) ==
    IF tensors[w].ctensor = Nil THEN hist ELSE [hist EXCEPT ![w].free = @ + 1]

\* lines 168-175: the handle and the finalizer are cleared
Cleared(ts) == [ts EXCEPT !.ctensor = Nil, !.finalizer = FALSE]

\* a variant whose error return at line 165 leaves the lock held
FreeBodyKeepsLock(p) ==
    /\ pc[p] = "free_lock"
    /\ lock = 0
    /\ LET w == local[p].ts
           ts == tensors[w]
       IN  IF ~IsRegistered(ts.name, ExistingTensors)
             THEN /\ Return(p)
                  /\ hist' = Returned(hist, w, FALSE)
                  /\ UNCHANGED <<AllocatedMem, lock, nilFreed, nativeErrs>>
             ELSE /\ AllocatedMem' = MemAfterFree(ts)
                  /\ nilFreed' = (nilFreed \/ ts.ctensor = Nil)
                  /\ \/ /\ nativeErrs < MaxNativeErr
                        /\ nativeErrs' = nativeErrs + 1
                        /\ Return(p)
                        /\ hist' = Returned(HistAfterFree(w), w, TRUE)
                        /\ lock' = p
                     \/ /\ nativeErrs' = nativeErrs
                        /\ pc' = [pc EXCEPT ![p] = "free_clear"]
                        /\ local' = local
                        /\ hist' = HistAfterFree(w)
                        /\ lock' = p
    /\ UNCHANGED <<TensorCount, ExistingTensors, Debug, tensors, nbytesOf>>

\* freeCTensor lines 138-166: take the lock, the double-free test, the byte
\* accounting, lib.AtFree(ts.ctensor) and the error query; the deferred
\* Unlock runs at each return
FreeBody(p) ==
    /\ pc[p] = "free_lock"
    /\ lock = 0
    /\ LET w == local[p].ts
           ts == tensors[w]
       IN  IF ~IsRegistered(ts.name, ExistingTensors)
             THEN /\ Return(p)
                  /\ hist' = Returned(hist, w, FALSE)
                  /\ UNCHANGED <<AllocatedMem, lock, nilFreed, nativeErrs>>
             ELSE /\ AllocatedMem' = MemAfterFree(ts)
                  /\ nilFreed' = (nilFreed \/ ts.ctensor = Nil)
                  /\ \/ /\ nativeErrs < MaxNativeErr
                        /\ nativeErrs' = nativeErrs + 1
                        /\ Return(p)
                        /\ hist' = Returned(HistAfterFree(w), w, TRUE)
                        /\ lock' = lock
                     \/ /\ nativeErrs' = nativeErrs
                        /\ pc' = [pc EXCEPT ![p] = "free_clear"]
                        /\ local' = local
                        /\ hist' = HistAfterFree(w)
                        /\ lock' = p
    /\ UNCHANGED <<TensorCount, ExistingTensors, Debug, tensors, nbytesOf>>

\* a variant that treats TensorCount as the number of live wrappers
FreeClearDecrements(p) ==
    /\ pc[p] = "free_clear"
    /\ LET w == local[p].ts
       IN  /\ ExistingTensors' = ExistingTensors \ {tensors[w].name}
           /\ tensors' = [tensors EXCEPT ![w] = Cleared(@)]
           /\ hist' = Returned(hist, w, FALSE)
    /\ lock' = 0
    /\ Return(p)
    /\ TensorCount' = TensorCount - 1
    /\ UNCHANGED <<AllocatedMem, Debug, nbytesOf, nativeErrs, nilFreed>>

\* freeCTensor lines 168-177: delete the entry, clear the handle and the
\* finalizer, return nil (and unlock)
FreeClear(p) ==
    /\ pc[p] = "free_clear"
    /\ LET w == local[p].ts
       IN  /\ ExistingTensors' = ExistingTensors \ {tensors[w].name}
           /\ tensors' = [tensors EXCEPT ![w] = Cleared(@)]
           /\ hist' = Returned(hist, w, FALSE)
    /\ lock' = 0
    /\ Return(p)
    /\ UNCHANGED <<TensorCount, AllocatedMem, Debug, nbytesOf, nativeErrs, nilFreed>>

\* runtime.SetFinalizer(x, freeCTensor), line 87: once no goroutine can reach
\* the wrapper any more (None is a package variable and stays reachable), the
\* runtime's finalizer goroutine removes the finalizer and calls
\* freeCTensor(x), lines 133-178.  No other goroutine can touch the wrapper,
\* so the whole call is one step, taken when the lock is free.
Finalizer(w) ==
    /\ w # NoneTensor
    /\ tensors[w].reachable
    /\ tensors[w].finalizer
    /\ \A t \in Threads : local[t].ts # w
    /\ lock = 0
    /\ LET ts == [tensors[w] EXCEPT !.reachable = FALSE, !.finalizer = FALSE]
       IN  IF ts.ctensor = Nil \/ ~IsRegistered(ts.name, ExistingTensors)
             THEN /\ tensors' = [tensors EXCEPT ![w] = ts]
                  /\ hist' = Returned(hist, w, FALSE)
                  /\ UNCHANGED <<AllocatedMem, ExistingTensors, nativeErrs>>
             ELSE /\ AllocatedMem' = MemAfterFree(ts)
                  /\ \/ /\ nativeErrs < MaxNativeErr
                        /\ nativeErrs' = nativeErrs + 1
                        /\ hist' = Returned(HistAfterFree(w), w, TRUE)
                        /\ tensors' = [tensors EXCEPT ![w] = ts]
                        /\ ExistingTensors' = ExistingTensors
                     \/ /\ nativeErrs' = nativeErrs
                        /\ hist' = Returned(HistAfterFree(w), w, FALSE)
                        /\ tensors' = [tensors EXCEPT ![w] = Cleared(ts)]
                        /\ ExistingTensors' = ExistingTensors \ {ts.name}
    /\ UNCHANGED <<TensorCount, lock, Debug, nbytesOf, pc, local, nilFreed>>

\* ---------------------------------------------------------------- report
\* a variant of CheckCMemLeak that reads without waiting for the lock
CheckLockNoWait(t) ==
    /\ pc[t] = "idle"
    /\ lock' = t
    /\ pc' = [pc EXCEPT ![t] = "check_body"]
    /\ local' = [local EXCEPT ![t] = [IdleLocal EXCEPT !.op = "CheckCMemLeak"]]
    /\ UNCHANGED <<TensorCount, AllocatedMem, ExistingTensors, Debug, tensors,
                   nbytesOf, nativeErrs, hist, nilFreed>>

\* CheckCMemLeak lines 98-99: lock.Lock()
CheckLock(t) ==
    /\ pc[t] = "idle"
    /\ lock = 0
    /\ lock' = t
    /\ pc' = [pc EXCEPT ![t] = "check_body"]
    /\ local' = [local EXCEPT ![t] = [IdleLocal EXCEPT !.op = "CheckCMemLeak"]]
    /\ UNCHANGED <<TensorCount, AllocatedMem, ExistingTensors, Debug, tensors,
                   nbytesOf, nativeErrs, hist, nilFreed>>

\* what CheckCMemLeak renders, lines 100-110: the byte counter and the names
LeakReport == [memUsed |-> AllocatedMem, tensors |-> ExistingTensors]

\* CheckCMemLeak lines 100-112: copy the names and the byte counter, unlock,
\* return the message
CheckCMemLeak(t) ==
    /\ pc[t] = "check_body"
    /\ lock' = 0
    /\ Return(t)
    /\ UNCHANGED <<TensorCount, AllocatedMem, ExistingTensors, Debug, tensors,
                   nbytesOf, nativeErrs, hist, nilFreed>>

\* ---------------------------------------------------------------- Next
\* the lifetime operations leave the data operations' record and the gradient
\* mode alone
Next ==
    \/ \E t \in Threads, n \in NameOpts :
          NewTensor(t, n) /\ UNCHANGED <<lastCall, gradVars>>
    \/ \E t \in Threads, c \in CallerPointers, n \in NameOpts :
          New(t, c, n) /\ UNCHANGED <<lastCall, gradVars>>
    \/ \E t \in Threads, c \in CallerPointers :
          FromCtensor(t, c) /\ UNCHANGED <<lastCall, gradVars>>
    \/ \E t \in Threads, w \in Wrappers :
          ShallowClone(t, w) /\ UNCHANGED <<lastCall, gradVars>>
    \/ \E t \in Threads, w \in Wrappers :
          Drop(t, w) /\ UNCHANGED <<lastCall, gradVars>>
    \/ \E w \in Wrappers : Finalizer(w) /\ UNCHANGED <<lastCall, gradVars>>
    \/ \E p \in Threads : FreeBody(p) /\ UNCHANGED <<lastCall, gradVars>>
    \/ \E p \in Threads : FreeClear(p) /\ UNCHANGED <<lastCall, gradVars>>
    \/ \E t \in Threads : CheckLock(t) /\ UNCHANGED <<lastCall, gradVars>>
    \/ \E t \in Threads : CheckCMemLeak(t) /\ UNCHANGED <<lastCall, gradVars>>

Spec == Init /\ [][Next]_vars

TypeOK ==
    /\ TensorCount \in 1..(1 + MaxAcquire)
    /\ lock \in Threads \cup {0}
    /\ Len(hist) = Len(tensors)

\* ---------------------------------------------------------------- copy
\* element types of a destination slice and of a tensor
DTypes == {"Uint8", "Float", "Int64"}
\* destinations of a copy, as DataCheck(dst) / len(dst) describe them
Dsts == [dtype : DTypes, len : 0..MaxLen]

\* the record of a data operation: the native entry points it called and
\* what it returned
Called(op, args, calls, ret) ==
    [op |-> op, args |-> args, calls |-> calls, ret |-> ret]

\* lib.AtCopyData followed by the error query, lines 890-895 and 926-931
AtCopyData(op, args, before) ==
    \/ /\ nativeErrs < MaxNativeErr
       /\ nativeErrs' = nativeErrs + 1
       /\ lastCall' = Called(op, args, before \o <<"AtCopyData", "TorchErr">>, "err")
    \/ /\ nativeErrs' = nativeErrs
       /\ lastCall' = Called(op, args, before \o <<"AtCopyData", "TorchErr">>, "nil")

\* ts.CopyDataUint8(dst, numel), lines 880-896 (&dst[0] panics on an empty
\* destination)
CopyDataUint8(dst, numel) ==
    /\ dst.dtype = "Uint8"
    /\ LET args == [dst |-> dst, numel |-> numel, kind |-> "Uint8"]
       IN  IF dst.len < numel
             THEN /\ lastCall' = Called("CopyDataUint8", args, <<>>, "err")
                  /\ nativeErrs' = nativeErrs
             ELSE IF dst.len = 0
               THEN /\ lastCall' = Called("CopyDataUint8", args, <<>>, "panic")
                    /\ nativeErrs' = nativeErrs
               ELSE AtCopyData("CopyDataUint8", args, <<>>)
    /\ UNCHANGED <<TensorCount, AllocatedMem, ExistingTensors, lock, Debug,
                   tensors, nbytesOf, pc, local, hist, nilFreed, gradVars>>

\* a variant that copies first and validates afterwards
CopyDataUnchecked(dst, numel, kind) ==
    /\ AtCopyData("CopyData", [dst |-> dst, numel |-> numel, kind |-> kind], <<>>)
    /\ UNCHANGED <<TensorCount, AllocatedMem, ExistingTensors, lock, Debug,
                   tensors, nbytesOf, pc, local, hist, nilFreed, gradVars>>

\* ts.CopyData(dst, numel), lines 912-932; kind is the element type of the
\* tensor, which ts.DType() reads with lib.AtScalarType (once for the test at
\* line 918, once more for the message at line 919)
CopyData(dst, numel, kind) ==
    /\ LET args == [dst |-> dst, numel |-> numel, kind |-> kind]
       IN  IF dst.len < numel
             THEN /\ lastCall' = Called("CopyData", args, <<>>, "err")
                  /\ nativeErrs' = nativeErrs
             ELSE IF kind # dst.dtype
               THEN /\ lastCall' = Called("CopyData", args,
                                          <<"AtScalarType", "AtScalarType">>, "err")
                    /\ nativeErrs' = nativeErrs
               ELSE AtCopyData("CopyData", args, <<"AtScalarType">>)
    /\ UNCHANGED <<TensorCount, AllocatedMem, ExistingTensors, lock, Debug,
                   tensors, nbytesOf, pc, local, hist, nilFreed, gradVars>>

CopyNext ==
    \/ \E dst \in Dsts, numel \in 0..MaxLen : CopyDataUint8(dst, numel)
    \/ \E dst \in Dsts, numel \in 0..MaxLen, kind \in DTypes :
          CopyData(dst, numel, kind)

\* copies out of one tensor, one after the other
CopySpec == Init /\ [][CopyNext]_vars

\* ---------------------------------------------------------------- construct
\* dtype.Size() in bytes
DTypeSize(d) == CASE d = "Uint8" -> 1 [] d = "Float" -> 4 [] d = "Int64" -> 8

\* lengths of the byte data handed to OfDataSize
DataLens == {n * DTypeSize(d) : n \in 0..MaxLen, d \in DTypes} \cup 0..MaxLen

\* o.Name of the tensor options: "" by default (DefaultTensorOptions), or the
\* name given with WithName
OptNames == {<<>>} \cup CallerNames

\* lib.AtTensorOfData, the error query and newTensor(ctensor, o.Name), lines
\* 472-477 and 555-560: nbytes is the size of the native tensor created
AtTensorOfData(op, args, nbytes) ==
    \/ /\ nativeErrs < MaxNativeErr
       /\ nativeErrs' = nativeErrs + 1
       /\ lastCall' = Called(op, [args EXCEPT !.nativeErr = TRUE],
                             <<"AtTensorOfData", "TorchErr">>, "err")
       /\ UNCHANGED <<TensorCount, AllocatedMem, ExistingTensors, lock, Debug,
                      tensors, nbytesOf, pc, local, hist, nilFreed>>
    \/ /\ nativeErrs' = nativeErrs
       /\ lastCall' = Called(op, args, <<"AtTensorOfData", "TorchErr">>, "nil")
       /\ nbytesOf' = Append(nbytesOf, nbytes)
       /\ newTensor(Len(nbytesOf) + 1, <<args.name>>)

\* OfDataSize(data, shape, dtype, opts...), lines 450-479: dataLen is
\* len(data), elementNum is ElementCount(shape)
OfDataSize(t, dataLen, elementNum, dtype, name) ==
    /\ pc[t] = "idle"
    /\ CanAcquire
    /\ LET nbytes == elementNum * DTypeSize(dtype)
           args == [dataLen |-> dataLen, elementNum |-> elementNum,
                    dtype |-> dtype, name |-> name, nativeErr |-> FALSE]
       IN  IF nbytes # dataLen
             THEN /\ lastCall' = Called("OfDataSize", args, <<>>, "err")
                  /\ UNCHANGED lifeVars
             ELSE AtTensorOfData("OfDataSize", args, nbytes)

\* NewTensorFromData(data, shape, opts...), lines 523-561: elementNum is
\* DataDim(data), nflattend is FlattenDim(shape), dtype is
\* DTypeFromData(data); dataOk is FALSE for data that DataDim, DataAsPtr or
\* DTypeFromData reject
NewTensorFromData(t, dataOk, elementNum, nflattend, dtype, name) ==
    /\ pc[t] = "idle"
    /\ CanAcquire
    /\ LET args == [dataOk |-> dataOk, elementNum |-> elementNum,
                    nflattend |-> nflattend, dtype |-> dtype, name |-> name,
                    nativeErr |-> FALSE]
       IN  IF ~dataOk \/ elementNum # nflattend
             THEN /\ lastCall' = Called("NewTensorFromData", args, <<>>, "err")
                  /\ UNCHANGED lifeVars
             ELSE AtTensorOfData("NewTensorFromData", args,
                                 elementNum * DTypeSize(dtype))

\* NewTensor(nameOpt...) as its caller sees it, lines 192-196: the result of
\* lib.AtNewTensor is wrapped without the error query, whether the native
\* call reported an error (failed) or not, and there is no error result
NewTensorCall(t, nameOpt, failed) ==
    /\ NewTensor(t, nameOpt)
    /\ lastCall' = Called("NewTensor", [name |-> nameOpt, nativeErr |-> failed],
                          <<"AtNewTensor">>, "tensor")

\* one construction in a behaviour, applied to the state after package
\* initialisation
ConstructNext ==
    \/ \E t \in Threads, dataLen \in DataLens, elementNum \in 0..MaxLen,
          dtype \in DTypes, name \in OptNames :
          /\ lastCall = NoCall
          /\ OfDataSize(t, dataLen, elementNum, dtype, name)
          /\ UNCHANGED gradVars
    \/ \E t \in Threads, dataOk \in BOOLEAN, elementNum \in 0..MaxLen,
          nflattend \in 0..MaxLen, dtype \in DTypes, name \in OptNames :
          /\ lastCall = NoCall
          /\ NewTensorFromData(t, dataOk, elementNum, nflattend, dtype, name)
          /\ UNCHANGED gradVars
    \/ \E t \in Threads, n \in NameOpts, failed \in BOOLEAN :
          /\ lastCall = NoCall
          /\ NewTensorCall(t, n, failed)
          /\ UNCHANGED gradVars

ConstructSpec == Init /\ [][ConstructNext]_vars

\* ---------------------------------------------------------------- grad mode
\* GradSetEnabled(b) / MustGradSetEnabled(b), lines 1210-1256:
\* lib.AtGradSetEnabled sets the global mode and returns the previous one
\* (on a native error MustGradSetEnabled ends the program with log.Fatal)
PreviousGrad == gradEnabled
GradSetEnabled(b) ==
    /\ gradEnabled' = b
    /\ guards' = guards

\* NewNoGradGuard() / noGradGuardInit(), lines 1297-1305: the guard's field
\* gets the value MustGradSetEnabled(false) returns; `found` records the mode
\* the constructor found
NewNoGradGuard ==
    /\ Len(guards) < MaxGuards
    /\ guards' = Append(guards, [enabled |-> PreviousGrad, found |-> gradEnabled])
    /\ gradEnabled' = FALSE

\* ngg.Drop(), lines 1308-1311
NoGradGuardDrop(g) ==
    /\ guards' = [guards EXCEPT ![g].enabled = TRUE]
    /\ gradEnabled' = guards'[g].enabled

\* ngg.Enable(), lines 1313-1316
NoGradGuardEnable(g) ==
    /\ guards' = [guards EXCEPT ![g].enabled = FALSE]
    /\ gradEnabled' = guards'[g].enabled

GradNext ==
    \/ \E b \in BOOLEAN : GradSetEnabled(b) /\ UNCHANGED <<lifeVars, lastCall, frames>>
    \/ NewNoGradGuard /\ UNCHANGED <<lifeVars, lastCall, frames>>
    \/ \E g \in 1..Len(guards) :
          NoGradGuardDrop(g) /\ UNCHANGED <<lifeVars, lastCall, frames>>
    \/ \E g \in 1..Len(guards) :
          NoGradGuardEnable(g) /\ UNCHANGED <<lifeVars, lastCall, frames>>

\* the gradient mode, switched by its setter and by guards
GradSpec == Init /\ [][GradNext]_vars

\* ---------------------------------------------------------------- values
\* Calls made one after the other by a single goroutine inside a helper are
\* computed on a record of the lifetime state.
Life == [count |-> TensorCount, mem |-> AllocatedMem, names |-> ExistingTensors,
         ts |-> tensors, sizes |-> nbytesOf, h |-> hist, errs |-> nativeErrs,
         nilF |-> nilFreed]

\* the state after newTensor(ctensor, nameOpt...), lines 59-90, on the handle
\* of a new native tensor of nbytes bytes
Acquired(S, nbytes, nameOpt) ==
    LET count == S.count + 1
        name == RegisteredName(nameOpt, count, S.names)
    IN  [S EXCEPT !.count = count,
                  !.sizes = Append(@, nbytes),
                  !.mem = IF Debug THEN @ + nbytes ELSE @,
                  !.names = @ \cup {name},
                  !.ts = Append(@, [name |-> name, ctensor |-> Len(S.sizes) + 1,
                                    finalizer |-> TRUE, reachable |-> TRUE]),
                  !.h = Append(@, NoHist)]

\* the state after ts.Drop() / freeCTensor(ts), lines 133-178 and 1193-1198,
\* run to its return with the lock free; fails: the error query after
\* lib.AtFree reports an error
Released(S, w, fails) ==
    LET x == S.ts[w]
    IN  IF x.ctensor = Nil \/ ~IsRegistered(x.name, S.names)
          THEN [S EXCEPT !.h = Returned(@, w, FALSE)]
          ELSE LET mem == IF Debug THEN S.mem - Nbytes(S.sizes, x.ctensor)
                                   ELSE S.mem
                   h == Returned([S.h EXCEPT ![w].free = @ + 1], w, fails)
               IN  IF fails
                     THEN [S EXCEPT !.mem = mem, !.h = h, !.errs = @ + 1]
                     ELSE [S EXCEPT !.mem = mem, !.h = h,
                                    !.names = @ \ {x.name},
                                    !.ts = [@ EXCEPT ![w] = Cleared(x)]]

\* the lifetime state becomes S
Becomes(S) ==
    /\ TensorCount' = S.count
    /\ AllocatedMem' = S.mem
    /\ ExistingTensors' = S.names
    /\ tensors' = S.ts
    /\ nbytesOf' = S.sizes
    /\ hist' = S.h
    /\ nativeErrs' = S.errs
    /\ nilFreed' = S.nilF
    /\ UNCHANGED <<lock, Debug, pc, local>>

\* ts.MustTotype(dtype, false): the converted copy is a new native tensor,
\* wrapped by newTensor without a name; the receiver is kept
MustTotype(S, w) == Acquired(S, Nbytes(S.sizes, S.ts[w].ctensor), <<>>)

\* a goroutine may call a helper on wrapper w
CanExtract(t, w) ==
    /\ pc[t] = "idle"
    /\ lock = 0
    /\ CanAcquire
    /\ tensors[w].reachable
    /\ tensors[w].ctensor # Nil

\* ts.Float64Values(del), lines 1346-1364: the converted tensor is not
\* dropped (line 1358 is commented out); fails: ts.MustDrop() panics
Float64Values(t, w, del, fails) ==
    /\ CanExtract(t, w)
    /\ fails => del
    /\ LET float64Ts == MustTotype(Life, w)
           S == IF del THEN Released(float64Ts, w, fails) ELSE float64Ts
       IN  S.errs <= MaxNativeErr /\ Becomes(S)

\* ts.Int64Values(del), lines 1367-1385; failsTmp: int64Ts.MustDrop()
\* panics, fails: ts.MustDrop() panics
Int64Values(t, w, del, failsTmp, fails) ==
    /\ CanExtract(t, w)
    /\ fails => (del /\ ~failsTmp)
    /\ LET int64Ts == MustTotype(Life, w)
           dropped == Released(int64Ts, Len(int64Ts.ts), failsTmp)
           S == IF del /\ ~failsTmp THEN Released(dropped, w, fails) ELSE dropped
       IN  S.errs <= MaxNativeErr /\ Becomes(S)

ValuesNext ==
    \/ \E t \in Threads, n \in NameOpts :
          New(t, Nil, n) /\ UNCHANGED <<lastCall, gradVars>>
    \/ \E t \in Threads, w \in Wrappers, del \in BOOLEAN, fails \in BOOLEAN :
          Float64Values(t, w, del, fails) /\ UNCHANGED <<lastCall, gradVars>>
    \/ \E t \in Threads, w \in Wrappers, del \in BOOLEAN, failsTmp \in BOOLEAN,
          fails \in BOOLEAN :
          Int64Values(t, w, del, failsTmp, fails) /\ UNCHANGED <<lastCall, gradVars>>

\* tensors are created and their values extracted by one call after the other
ValuesSpec == Init /\ [][ValuesNext]_vars

\* ---------------------------------------------------------------- NoGrad
\* the call whose closure is running innermost
Top == frames[Len(frames)]
Popped == SubSeq(frames, 1, Len(frames) - 1)

\* a call of NoGrad / NoGrad1 reaches fn(): `prev` is what
\* MustGradSetEnabled(false) returned (NoGrad discards it, line 1261, NoGrad1
\* keeps it, line 1274), `found` records the mode the call found
Pushed(fn) == Append(frames, [fn |-> fn, prev |-> PreviousGrad, found |-> gradEnabled])

\* NoGrad(fn) up to the call of fn, lines 1259-1263
NoGrad ==
    /\ Len(frames) < MaxDepth
    /\ frames' = Pushed("NoGrad")
    /\ gradEnabled' = FALSE
    /\ UNCHANGED <<lifeVars, guards>>

\* NoGrad(fn) after fn has returned, lines 1265-1267
NoGradReturn ==
    /\ frames # <<>>
    /\ Top.fn = "NoGrad"
    /\ frames' = Popped
    /\ gradEnabled' = TRUE
    /\ UNCHANGED <<lifeVars, guards>>

\* NoGrad1(fn) up to the call of fn, lines 1269-1276: a tensor is created and
\* dropped (the error of Drop is ignored), then gradients are switched off
NoGrad1(fails) ==
    /\ Len(frames) < MaxDepth
    /\ lock = 0
    /\ CanAcquire
    /\ LET newTs == Acquired(Life, 0, <<>>)
           S == Released(newTs, Len(newTs.ts), fails)
       IN  S.errs <= MaxNativeErr /\ Becomes(S)
    /\ frames' = Pushed("NoGrad1")
    /\ gradEnabled' = FALSE
    /\ guards' = guards

\* NoGrad1(fn) after fn has returned, lines 1278-1281
NoGrad1Return ==
    /\ frames # <<>>
    /\ Top.fn = "NoGrad1"
    /\ frames' = Popped
    /\ gradEnabled' = Top.prev
    /\ UNCHANGED <<lifeVars, guards>>

\* closures may call NoGrad, NoGrad1 and the setter
NoGradNext ==
    \/ \E b \in BOOLEAN : GradSetEnabled(b) /\ UNCHANGED <<lifeVars, lastCall, frames>>
    \/ NoGrad /\ lastCall' = lastCall
    \/ NoGradReturn /\ lastCall' = lastCall
    \/ \E fails \in BOOLEAN : NoGrad1(fails) /\ lastCall' = lastCall
    \/ NoGrad1Return /\ lastCall' = lastCall

NoGradSpec == Init /\ [][NoGradNext]_vars

\* ================================================================ claims
\* steps of a behaviour, named by what the code does in them

\* a release call of goroutine t on wrapper w returns in this step
DropReturns(t, w) ==
    \/ /\ Drop(t, w)
       /\ pc'[t] = "idle"
    \/ /\ local[t].ts = w
       /\ pc'[t] = "idle"
       /\ FreeBody(t) \/ FreeClear(t)

\* a release call on wrapper w (Drop or finalizer run) returns in this step
ReleaseReturns(w) == Finalizer(w) \/ \E t \in Threads : DropReturns(t, w)

\* the native free of wrapper w's release reports an error in this step
ReleaseFails(w) ==
    /\ nativeErrs' = nativeErrs + 1
    /\ Finalizer(w) \/ \E t \in Threads : local[t].ts = w /\ FreeBody(t)

\* no release call on w is running
NoCallOn(w) == \A t \in Threads : local[t].ts # w

\* C1: a wrapper that is acquired and then released exactly once (this is the
\* first release call on it to return, and no other one is running) has no
\* entry under its name afterwards, and lib.AtFree was called on its handle no
\* more than once.
C1_ReleasedOnce ==
    [][\A w \in Wrappers :
         ( /\ ReleaseReturns(w)
           /\ ~hist[w].released
           /\ \A t \in Threads : local[t].ts = w => pc'[t] = "idle" )
         => ( /\ tensors[w].name \notin ExistingTensors'
              /\ hist'[w].free <= 1 )]_vars

\* C2: a release whose native free reports an error still removes the
\* wrapper's entry from ExistingTensors.
C2_FailedReleaseCleansUp ==
    [][\A w \in Wrappers :
         ReleaseFails(w) => tensors[w].name \notin ExistingTensors']_vars

\* C3: a release call on a wrapper that starts after an earlier release call
\* on it has returned calls lib.AtFree no more and returns nil, through the
\* nil-handle test or the log-and-skip branch.
C3_DoubleReleaseAbsorbed ==
    [][/\ \A t \in Threads :
            (local[t].second /\ FreeBody(t))
            => ( /\ pc'[t] = "idle"
                 /\ hist' = hist
                 /\ nativeErrs' = nativeErrs
                 /\ nilFreed' = nilFreed )
       /\ \A w \in Wrappers :
            (hist[w].released /\ Finalizer(w))
            => (hist'[w].free = hist[w].free /\ nativeErrs' = nativeErrs)]_vars

\* C4: whatever Drop calls and finalizer runs happen on a wrapper, its handle
\* is passed to lib.AtFree at most once.
C4_FreedAtMostOnce == \A w \in Wrappers : hist[w].free <= 1

\* C5: with N newTensor calls and M successful releases completed, the
\* registry has N - M entries.
SuccessfullyReleased == {w \in Wrappers : tensors[w].ctensor = Nil}
C5_RegistrySize ==
    (\A t \in Threads : pc[t] # "free_clear")
    => Cardinality(ExistingTensors) = TensorCount - Cardinality(SuccessfullyReleased)

\* C6: every acquire registers the new wrapper under a name that was not in
\* ExistingTensors before.
C6_FreshName ==
    [][Len(tensors') > Len(tensors)
         => tensors'[Len(tensors')].name \notin ExistingTensors]_vars

\* the value of a sequence of decimal digits
DigitValue(d) == CHOOSE k \in 0..9 : Digits[k + 1] = d
RECURSIVE Decimal(_)
Decimal(ds) ==
    IF ds = <<>> THEN 0
    ELSE 10 * Decimal(SubSeq(ds, 1, Len(ds) - 1)) + DigitValue(ds[Len(ds)])

\* name is base, then "_", then the 9 digits of count
IsNumbered(name, base, count) ==
    /\ Len(name) = Len(base) + 10
    /\ SubSeq(name, 1, Len(base)) = base
    /\ name[Len(base) + 1] = "_"
    /\ \A i \in (Len(base) + 2)..Len(name) : \E k \in 1..10 : Digits[k] = name[i]
    /\ Decimal(SubSeq(name, Len(base) + 2, Len(name))) = count

\* the name an acquire step asks for
Asks(req) ==
    \/ \E t \in Threads, n \in NameOpts :
          /\ NewTensor(t, n) \/ \E c \in CallerPointers : New(t, c, n)
          /\ req = newName(n, TensorCount')
    \/ \E t \in Threads, w \in Wrappers :
          /\ ShallowClone(t, w)
          /\ Len(tensors') > Len(tensors)
          /\ req = ClonedName(tensors[w].name)

\* C7: an acquire that asks for a name which is registered leaves that entry
\* in place and registers the new wrapper under the name followed by "_" and
\* the 9-digit TensorCount of this acquire; the two entries are distinct.
C7_CollisionNumbered ==
    [][\A req \in ExistingTensors :
         Asks(req)
         => LET x == tensors'[Len(tensors')]
            IN  /\ IsNumbered(x.name, req, TensorCount + 1)
                /\ TensorCount' = TensorCount + 1
                /\ x.name # req
                /\ {req, x.name} \subseteq ExistingTensors'
                /\ \A w \in Wrappers : tensors'[w].name = tensors[w].name]_vars

\* a wrapper acquired under the name of an earlier, still registered wrapper:
\* it carries that name with its own count (wrapper w is the w-th acquire)
C7_Witness ==
    \E v, w \in Wrappers :
        /\ v < w
        /\ w # MaxAcquire + 1
        /\ tensors[w].name = tensors[v].name \o <<"_">> \o Pad9(w)
        /\ {tensors[v].name, tensors[w].name} \subseteq ExistingTensors

\* C8: when releases of one wrapper race (and the native free reports no
\* error), lib.AtFree is called with the wrapper's handle once, never with a
\* cleared handle, and no entry of another wrapper is removed.
C8_RacingReleasesSafe ==
    [][nativeErrs' = 0
         => ( /\ ~nilFreed'
              /\ \A w \in Wrappers : hist'[w].free <= 1
              /\ \A t \in Threads :
                   FreeClear(t) => tensors[local[t].ts].ctensor # Nil )]_vars

\* C9: no two wrappers hold the same non-nil native handle.
C9_NoAliasing ==
    \A v, w \in Wrappers :
        (v # w /\ tensors[v].ctensor # Nil) => tensors[v].ctensor # tensors[w].ctensor

\* C10: CheckCMemLeak, called when every acquired wrapper has had its release
\* call and none is running, reports 0 bytes and no tensor names.
AllReleased == \A w \in Wrappers : hist[w].released /\ NoCallOn(w)
C10_CleanReport ==
    \A t \in Threads :
        (pc[t] = "check_body" /\ AllReleased)
        => LeakReport = [memUsed |-> 0, tensors |-> {}]

\* C11: once a release has cleared a wrapper's handle, the handle stays nil,
\* and a Drop or finalizer run on the wrapper that starts afterwards returns at
\* once, leaving ExistingTensors, TensorCount and AllocatedMem as they are and
\* calling neither lib.AtFree nor the error query.
C11_ReleasedIsTerminal ==
    [][\A w \in Wrappers :
         tensors[w].ctensor = Nil
         => ( /\ tensors'[w].ctensor = Nil
              /\ \A t \in Threads :
                   Drop(t, w)
                   => ( /\ pc'[t] = "idle"
                        /\ UNCHANGED <<ExistingTensors, TensorCount, AllocatedMem,
                                       nativeErrs, nilFreed>>
                        /\ hist'[w].free = hist[w].free )
              /\ Finalizer(w)
                   => ( /\ UNCHANGED <<ExistingTensors, TensorCount, AllocatedMem,
                                       nativeErrs, nilFreed>>
                        /\ hist'[w].free = hist[w].free ) )]_vars

\* a released wrapper its owner still holds, so that Drop can be called again
C11_Witness ==
    \E w \in Wrappers :
        /\ tensors[w].ctensor = Nil
        /\ tensors[w].name \notin ExistingTensors
        /\ tensors[w].reachable
        /\ hist[w].free = 1
        /\ \E t \in Threads : pc[t] = "idle"

\* the handle of w has been freed by lib.AtFree without error and the
\* releasing goroutine has not yet reached lines 168-171
FreedNotCleared(w) ==
    /\ tensors[w].ctensor # Nil
    /\ \E t \in Threads : pc[t] = "free_clear" /\ local[t].ts = w

\* C12: native free, registry delete and handle clear are one transition for
\* every other goroutine: while a wrapper's handle is freed and not yet
\* cleared, no other operation reads the handle (the nil test of Drop, the
\* argument of lib.AtShallowClone).
C12_ReleaseAtomic ==
    [][\A w \in Wrappers :
         FreedNotCleared(w)
         => \A u \in Threads : ~(Drop(u, w) \/ ShallowClone(u, w))]_vars

\* C13: the finalizer run of a wrapper that became unreachable without a
\* release call of its owner having returned calls lib.AtFree on its handle
\* and leaves no entry under its name (the runtime runs a finalizer once, so
\* what this run leaves registered stays registered).
C13_FinalizerReleases ==
    [][\A w \in Wrappers :
         (Finalizer(w) /\ ~hist[w].released)
         => ( /\ hist'[w].free >= 1
              /\ tensors[w].name \notin ExistingTensors' )]_vars

\* goroutine t is inside a critical section of `lock`
InCritical(t) == pc[t] \in {"free_clear", "check_body"}

\* C14: ExistingTensors, TensorCount and AllocatedMem change only in steps of
\* the goroutine that holds the lock or takes it in this step (no other
\* goroutine holds it), and while CheckCMemLeak reads them it holds the lock,
\* no release or other report is inside its critical section, and no step
\* changes them: the report is the registry and byte counter of one state
\* between critical sections.
C14_LockProtected ==
    [][/\ <<ExistingTensors, TensorCount, AllocatedMem>>'
            # <<ExistingTensors, TensorCount, AllocatedMem>>
          => (lock = 0 \/ \E t \in Threads : lock = t /\ pc'[t] # pc[t])
       /\ \A t \in Threads :
            pc[t] = "check_body"
            => ( /\ lock = t
                 /\ \A u \in Threads \ {t} : ~InCritical(u)
                 /\ UNCHANGED <<ExistingTensors, TensorCount, AllocatedMem>> )
       /\ \A t \in Threads :
            pc[t] = "free_clear"
            => (lock = t /\ \A u \in Threads \ {t} : ~InCritical(u))]_vars

\* a report is being read while a release of another goroutine has started
\* and waits for the lock
C14_Witness ==
    \E t, u \in Threads :
        /\ pc[t] = "check_body"
        /\ pc[u] = "free_lock"
        /\ TensorCount > 1

\* the release call returning in this step reached lib.AtFree and the error
\* query after it reported an error
FreeReportedError(w) ==
    /\ nativeErrs' = nativeErrs + 1
    /\ \/ hist'[w].free = hist[w].free + 1
       \/ tensors[w].ctensor = Nil /\ nilFreed'

C16_CountsCreations ==
    [][/\ TensorCount = Len(tensors)
       /\ TensorCount' = Len(tensors')
       /\ TensorCount' \in {TensorCount, TensorCount + 1}
       /\ (\E p \in Threads : FreeBody(p) \/ FreeClear(p))
            => TensorCount' = TensorCount
       /\ (\E w \in Wrappers : ReleaseReturns(w)) => TensorCount' = TensorCount]_vars

\* wrappers have been created after None and one of them has been released
C16_Witness ==
    /\ TensorCount >= 2
    /\ \E w \in Wrappers : tensors[w].ctensor = Nil /\ hist[w].free = 1

\* the last operation was a copy whose destination is too short
CopyTooShort ==
    /\ lastCall.op \in {"CopyData", "CopyDataUint8"}
    /\ lastCall.args.dst.len < lastCall.args.numel

\* the last operation was a CopyData into a slice of another element type
\* than the tensor's
CopyTypeMismatch ==
    /\ lastCall.op = "CopyData"
    /\ lastCall.args.kind # lastCall.args.dst.dtype

Constructed == lastCall.op \in {"OfDataSize", "NewTensorFromData", "NewTensor"}

\* ... whose data and shape do not match
HostMismatch ==
    \/ /\ lastCall.op = "OfDataSize"
       /\ lastCall.args.dataLen
            # lastCall.args.elementNum * DTypeSize(lastCall.args.dtype)
    \/ /\ lastCall.op = "NewTensorFromData"
       /\ lastCall.args.elementNum # lastCall.args.nflattend

\* ... which made a native tensor-creation call
CreatedNatively ==
    \E i \in 1..Len(lastCall.calls) :
        lastCall.calls[i] \in {"AtTensorOfData", "AtNewTensor"}

\* C18: a construction that fails, by a data/shape mismatch or because its
\* native call reports an error, returns an error and leaves ExistingTensors,
\* TensorCount and AllocatedMem as they were; with a mismatch it makes no
\* native tensor-creation call.
C18_FailedConstructionAcquiresNothing ==
    [][(Constructed' /\ (HostMismatch' \/ lastCall'.args.nativeErr))
         => ( /\ lastCall'.ret = "err"
              /\ UNCHANGED <<ExistingTensors, TensorCount, AllocatedMem>>
              /\ HostMismatch' => ~CreatedNatively' )]_vars

\* C19: with gotch.Debug false AllocatedMem is 0 and no step changes it; with
\* gotch.Debug true a step that creates a wrapper adds the byte size of the
\* native tensor behind its handle (0 for a nil handle) to it.
C19_MemOnlyInDebug ==
    [][/\ ~Debug => (AllocatedMem = 0 /\ AllocatedMem' = 0)
       /\ (Debug /\ Len(tensors') > Len(tensors))
            => LET c == tensors'[Len(tensors')].ctensor
               IN  AllocatedMem'
                     = AllocatedMem + (IF c = Nil THEN 0 ELSE nbytesOf'[c])]_vars

\* in diagnostic mode an acquire has added the size of a defined tensor
C19_Witness == Debug /\ AllocatedMem > 0 /\ TensorCount > 1

\* C20: dropping a NoGradGuard sets the global gradient mode to the status
\* its constructor found, whether that was enabled or disabled.
C20_GuardRestores ==
    [][\A g \in 1..Len(guards) :
         NoGradGuardDrop(g) => gradEnabled' = guards[g].found]_vars

\* no goroutine is inside a call
Quiescent == \A t \in Threads : pc[t] = "idle"

\* C21: in a quiescent state every wrapper whose non-nil handle has not been
\* passed to lib.AtFree has its name in ExistingTensors.
C21_LiveIsRegistered ==
    Quiescent
    => \A w \in Wrappers :
          (tensors[w].ctensor # Nil /\ hist[w].free = 0)
          => tensors[w].name \in ExistingTensors

\* the wrappers that are in the registry
Registered == {w \in Wrappers : /\ tensors[w].ctensor # Nil
                                /\ tensors[w].name \in ExistingTensors}

\* the sum of the estimated byte sizes of a set of wrappers
RECURSIVE SumBytes(_)
SumBytes(ws) ==
    IF ws = {} THEN 0
    ELSE LET w == CHOOSE v \in ws : TRUE
         IN  Nbytes(nbytesOf, tensors[w].ctensor) + SumBytes(ws \ {w})

\* C22: in diagnostic mode AllocatedMem is, in every quiescent state, the sum
\* of the byte sizes of the registered wrappers, and it is never negative.
C22_MemMatchesRegistry ==
    Debug => ( /\ AllocatedMem >= 0
               /\ Quiescent => AllocatedMem = SumBytes(Registered) )

\* C25: a value-extraction call that returns (no release in it panics)
\* leaves ExistingTensors as it was when del is false, and without the
\* receiver's entry, nothing else changed, when del is true.
C25_NoExtraWrapper ==
    [][\A t \in Threads, w \in Wrappers, del \in BOOLEAN :
         ( /\ nativeErrs' = nativeErrs
           /\ \/ Float64Values(t, w, del, FALSE)
              \/ Int64Values(t, w, del, FALSE, FALSE) )
         => ExistingTensors' = IF del THEN ExistingTensors \ {tensors[w].name}
                                     ELSE ExistingTensors]_vars

\* a step of the call goroutine t is in
Proceeds(t) ==
    (FreeBody(t) \/ FreeClear(t) \/ CheckCMemLeak(t))
    /\ UNCHANGED <<lastCall, gradVars>>

\* C23: the lock is held only by a goroutine inside a critical section (every
\* return path has released it), no goroutine waits for a lock it holds, and
\* whenever calls are in progress one of them can take its next step, so no
\* interleaving ends with a call that cannot complete.
C23_NoDeadlock ==
    /\ \A t \in Threads : lock = t => InCritical(t)
    /\ \A t \in Threads : pc[t] = "free_lock" => lock # t
    /\ (\E t \in Threads : pc[t] # "idle")
         => \E t \in Threads : pc[t] # "idle" /\ ENABLED Proceeds(t)

\* after a release has returned a native error, a release waits for the lock
\* that another goroutine holds
C23_Witness ==
    /\ nativeErrs > 0
    /\ \E t, u \in Threads : t # u /\ pc[t] = "free_lock" /\ lock = u

\* goroutine t acquires a wrapper without a caller-supplied name in this step
AcquiresUnnamed(t) ==
    \/ NewTensor(t, <<>>)
    \/ \E c \in CallerPointers : New(t, c, <<>>) \/ FromCtensor(t, c)

\* C24: an acquire without a caller-supplied name registers the wrapper as
\* "tensor_" followed by the 9 digits of the TensorCount of this acquire, a
\* name no wrapper created before carries, whatever the other goroutines are
\* doing.
C24_AutoNamesDistinct ==
    [][\A t \in Threads :
         AcquiresUnnamed(t)
         => LET x == tensors'[Len(tensors')]
            IN  /\ Len(tensors') = Len(tensors) + 1
                /\ IsNumbered(x.name, <<"tensor">>, TensorCount')
                /\ Decimal(SubSeq(x.name, 3, 11)) = Len(tensors')
                /\ x.name \notin ExistingTensors
                /\ \A w \in Wrappers : tensors[w].name # x.name]_vars

\* two wrappers acquired without a name while a release of another goroutine
\* is in progress
C24_Witness ==
    \E v, w \in Wrappers :
        /\ 1 < v /\ v < w
        /\ IsNumbered(tensors[v].name, <<"tensor">>, v)
        /\ IsNumbered(tensors[w].name, <<"tensor">>, w)
        /\ \E t \in Threads : pc[t] = "free_lock"

\* C26: when a NoGrad or NoGrad1 call returns, the global gradient mode is
\* the one the call found, for either mode and at every nesting depth; when
\* its closure starts, gradients are off.
C26_NoGradRestores ==
    [][/\ (NoGrad \/ \E fails \in BOOLEAN : NoGrad1(fails)) => ~gradEnabled'
       /\ (NoGradReturn \/ NoGrad1Return) => gradEnabled' = Top.found]_vars

====
